---- MODULE Spec2Model ----
(***************************************************************************)
(* A model of shlex.h: the Shlex structure, the tokenizer shlex_next (one  *)
(* step per iteration of its loops), the quoting encoder                   *)
(* shlex_append_quoted_sized, shlex_join, shlex_reset, shlex_init and      *)
(* shlex_free.                                                             *)
(*                                                                         *)
(* Bytes are integers 0..255.  Pointers into the caller's text are         *)
(* addresses: the text `mem' occupies addresses 1..Len(mem), so *p is      *)
(* mem[p]; NULL is address 0.  The string storage is the sequence of the   *)
(* bytes written to the heap block so far (bytes never written are not     *)
(* part of it); string_count and string_capacity are the fields of the     *)
(* same names.  realloc succeeds in Spec, SpecReuse and SpecGrow and may   *)
(* return NULL in SpecAlloc.  The bytes explored are 7-bit, for which      *)
(* <ctype.h> is defined whatever the signedness of char.                   *)
(***************************************************************************)
EXTENDS Integers, Sequences, FiniteSets, TLC

----------------------------------------------------------------------------
(* Bytes the code names.                                                   *)
NULL == 0
NUL == 0
NL == 10
SP == 32
DQ == 34
DOLLAR == 36
SQ == 39
BS == 92
BQ == 96
CH_a == 97
INIT_CAP == 256

(* Bounds of the explored inputs.                                          *)
MaxSrcLen == 5
MaxFed == 5
GrowLen == 300
MaxGrowFed == 1000

----------------------------------------------------------------------------
(* <ctype.h> and <string.h>, "C" locale, bytes 0..127.                     *)
isspace(c) == c \in {9, 10, 11, 12, 13, 32}

isalnum(c) == c \in (48..57) \cup (65..90) \cup (97..122)

(* strchr(s, c) != NULL.  The terminator of s is part of the string, so    *)
(* strchr(s, '\0') points at it and is never NULL.                         *)
strchr(s, c) == (c = NUL) \/ (\E i \in 1..Len(s) : s[i] = c)

(* strlen-bounded reading of a C string held in bytes.                     *)
CStr(bytes) ==
    LET nuls == {i \in DOMAIN bytes : bytes[i] = NUL}
    IN  IF nuls = {} THEN bytes
        ELSE SubSeq(bytes, 1, (CHOOSE i \in nuls : \A j \in nuls : i <= j) - 1)

(* The literal "_@%+=:,./-" of shlex__contains_unsafe.                     *)
SafePunct == <<95, 64, 37, 43, 61, 58, 44, 46, 47, 45>>

----------------------------------------------------------------------------
(* The string storage as a value: the three fields string, string_count,   *)
(* string_capacity.                                                        *)
Storage(str, cnt, cap) ==
    [string |-> str, string_count |-> cnt, string_capacity |-> cap]

(* A growth by a fixed amount instead of a doubling.                       *)
GrowCapacity_AddsBlock(cap) == cap + INIT_CAP

(* Line 254.                                                               *)
GrowCapacity(cap) == IF cap = 0 THEN INIT_CAP ELSE cap * 2

shlex__string_append(b, x) ==
    LET cap == IF b.string_count >= b.string_capacity
               THEN GrowCapacity(b.string_capacity)
               ELSE b.string_capacity
        i   == b.string_count + 1
        str == IF i <= Len(b.string)
               THEN [b.string EXCEPT ![i] = x]
               ELSE Append(b.string, x)
    IN  Storage(str, b.string_count + 1, cap)

(* Line 253-254 repeated until n bytes fit.                                *)
RECURSIVE CapacityFor(_, _)
CapacityFor(cap, n) ==
    IF n <= cap THEN cap ELSE CapacityFor(GrowCapacity(cap), n)

(* Several shlex__string_append calls in a row, for the bytes xs in order: *)
(* each byte is stored at the next index, the storage having grown before  *)
(* every byte that found it full.                                          *)
AppendAll(b, xs) ==
    IF xs = <<>> THEN b
    ELSE LET n == b.string_count + Len(xs)
             m == IF Len(b.string) > n THEN Len(b.string) ELSE n
         IN  Storage([i \in 1..m |->
                         IF b.string_count < i /\ i <= n
                         THEN xs[i - b.string_count]
                         ELSE b.string[i]],
                     n, CapacityFor(b.string_capacity, n))

shlex__contains_unsafe(str) ==
    \E i \in 1..Len(str) : ~isalnum(str[i]) /\ ~strchr(SafePunct, str[i])

----------------------------------------------------------------------------
VARIABLES
    mem,             \* the caller's text, at addresses 1..Len(mem)
    source,          \* Shlex.source      (address, NULL = 0)
    source_end,      \* Shlex.source_end  (address)
    point,           \* Shlex.point       (address)
    string,          \* Shlex.string: the bytes written to the storage
    string_count,    \* Shlex.string_count
    string_capacity, \* Shlex.string_capacity
    pc,              \* where the caller is: "idle", or inside shlex_next
    strlit,          \* shlex_next's local strlit
    op,              \* the last call made
    ret,             \* what the last call returned, read as a C string
    callPoint,       \* point when shlex_next was last called
    tokStart,        \* point when shlex_next last passed line 110
    emitted,         \* bytes shlex_next handed to shlex__string_append
    toks,            \* tokens returned since shlex_init
    args,            \* strings appended since the join session began
    clean,           \* the join session began with string_count = 0
    joined,          \* the caller's strdup of the shlex_join result, until
                     \* the next call other than shlex_next
    fed,             \* input the caller has fed to this instance
    rt,              \* the strings whose join is the text being split
    heap             \* the allocator's side: the size of the block
                     \* Shlex.string points to, and the bytes of blocks
                     \* that were not freed and that no pointer refers to

vars == <<mem, source, source_end, point, string, string_count,
          string_capacity, pc, strlit, op, ret, callPoint, tokStart,
          emitted, toks, args, clean, joined, fed, rt, heap>>

splitVars == <<mem, source, source_end, point>>
joinVars  == <<args, clean, joined>>

Buf == Storage(string, string_count, string_capacity)

(* The storage after appends whose realloc calls, if any, succeeded: the   *)
(* block held has the size asked for at line 256.                          *)
SetBuf(b) ==
    /\ string' = b.string
    /\ string_count' = b.string_count
    /\ string_capacity' = b.string_capacity
    /\ heap' = [heap EXCEPT !.held = b.string_capacity]

Returned(isNull, bytes) == [null |-> isNull, str |-> CStr(bytes)]

NoJoined == [has |-> FALSE, str |-> <<>>, args |-> <<>>, clean |-> FALSE]

NoRoundTrip == [on |-> FALSE, S |-> <<>>]

(* A call other than shlex_next: shlex_next's locals are gone, and what is *)
(* recorded of the last shlex_next call and of its tokens is dropped.      *)
LeaveNext ==
    /\ strlit' = 0
    /\ callPoint' = NULL
    /\ tokStart' = NULL
    /\ emitted' = <<>>
    /\ toks' = <<>>

Void == Returned(TRUE, <<>>)

(* Shlex s = {0};                                                          *)
Init ==
    /\ mem = <<>>
    /\ source = NULL
    /\ source_end = NULL
    /\ point = NULL
    /\ string = <<>>
    /\ string_count = 0
    /\ string_capacity = 0
    /\ pc = "idle"
    /\ strlit = 0
    /\ op = "none"
    /\ ret = Void
    /\ callPoint = NULL
    /\ tokStart = NULL
    /\ emitted = <<>>
    /\ toks = <<>>
    /\ args = <<>>
    /\ clean = TRUE
    /\ joined = NoJoined
    /\ fed = 0
    /\ rt = NoRoundTrip
    /\ heap = [held |-> 0, leaked |-> 0]

----------------------------------------------------------------------------
(* shlex_init(s, source, source_end): the caller's text src is placed at   *)
(* addresses 1..Len(src).                                                  *)
shlex_init(src) ==
    /\ pc = "idle"
    /\ mem' = src
    /\ source' = 1
    /\ source_end' = 1 + Len(src)
    /\ point' = 1
    /\ op' = "init"
    /\ ret' = Void
    /\ LeaveNext
    /\ joined' = NoJoined
    /\ UNCHANGED <<string, string_count, string_capacity, pc, args, clean,
                   heap>>

(* shlex_free: the storage is freed and every field is zeroed.  The        *)
(* caller drops what it kept of the instance (line 365).                   *)
shlex_free ==
    /\ pc = "idle"
    /\ mem' = <<>>
    /\ source' = NULL
    /\ source_end' = NULL
    /\ point' = NULL
    /\ string' = <<>>
    /\ string_count' = 0
    /\ string_capacity' = 0
    /\ op' = "free"
    /\ ret' = Void
    /\ LeaveNext
    /\ args' = <<>>
    /\ clean' = TRUE
    /\ joined' = NoJoined
    /\ fed' = 0
    /\ rt' = NoRoundTrip
    /\ heap' = [heap EXCEPT !.held = 0]
    /\ UNCHANGED pc

----------------------------------------------------------------------------
(* shlex_next, lines 102-195.                                              *)

(* No whitespace loop at all.                                              *)
SkipCond_Never == FALSE

(* A whitespace loop that stops one byte early.                            *)
SkipCond_StopsEarly == point + 1 < source_end /\ isspace(mem[point])

(* Line 104: the condition of the whitespace-skipping loop.                *)
SkipCond == point < source_end /\ isspace(mem[point])

(* An end-of-input test that is off by one.                                *)
AtEnd_OffByOne == point > source_end

(* Line 108: the end-of-input test.                                        *)
AtEnd == point >= source_end

(* A backslash that escapes every byte inside double quotes.               *)
DqEscaped_Any(d) == TRUE

(* Lines 145-149: the bytes a backslash escapes inside double quotes.      *)
DqEscaped(d) == d \in {DOLLAR, BQ, BS, NL, DQ}

(* One iteration of the loop of line 112 is a record: the bytes handed to  *)
(* shlex__string_append in order, the new point and strlit, and whether    *)
(* the iteration returned.                                                 *)
Iter(out, pt, lit, done) ==
    [out |-> out, point |-> pt, strlit |-> lit, done |-> done]

(* Lines 116-123: inside single quotes.                                    *)
LexSingle(c) ==
    IF c = SQ THEN Iter(<<>>, point + 1, 0, FALSE)
    ELSE Iter(<<c>>, point + 1, SQ, FALSE)

(* A backslash at the end of the range, inside double quotes, that is      *)
(* dropped as it is outside quotes.                                        *)
LexDoubleBackslash_Drops(p) ==
    IF p >= source_end THEN Iter(<<NUL>>, p, DQ, TRUE)
    ELSE IF DqEscaped(mem[p]) THEN Iter(<<mem[p]>>, p + 1, DQ, FALSE)
    ELSE Iter(<<BS, mem[p]>>, p + 1, DQ, FALSE)

(* Lines 133-157: a backslash inside double quotes; p is the point after   *)
(* the backslash.                                                          *)
LexDoubleBackslash(p) ==
    IF p >= source_end THEN Iter(<<BS, NUL>>, p, DQ, TRUE)
    ELSE IF DqEscaped(mem[p]) THEN Iter(<<mem[p]>>, p + 1, DQ, FALSE)
    ELSE Iter(<<BS, mem[p]>>, p + 1, DQ, FALSE)

(* Lines 127-162: inside double quotes.                                    *)
LexDouble(c) ==
    IF c = DQ THEN Iter(<<>>, point + 1, 0, FALSE)
    ELSE IF c = BS THEN LexDoubleBackslash(point + 1)
    ELSE Iter(<<c>>, point + 1, DQ, FALSE)

(* A backslash outside quotes that consumes a byte after it even at the    *)
(* end of the range.                                                       *)
LexBackslash_PastEnd(p) ==
    IF p < source_end THEN Iter(<<mem[p]>>, p + 1, 0, FALSE)
    ELSE Iter(<<>>, p + 1, 0, FALSE)

(* A backslash outside quotes that is kept before the byte it escapes.     *)
LexBackslash_KeepsBackslash(p) ==
    IF p < source_end THEN Iter(<<BS, mem[p]>>, p + 1, 0, FALSE)
    ELSE Iter(<<>>, p, 0, FALSE)

(* Lines 172-178: a backslash outside quotes; p is the point after it.     *)
LexBackslash(p) ==
    IF p < source_end THEN Iter(<<mem[p]>>, p + 1, 0, FALSE)
    ELSE Iter(<<>>, p, 0, FALSE)

(* A whitespace byte that is consumed when it ends the token.              *)
LexPlain_ConsumesWhitespace(c) ==
    IF isspace(c) THEN Iter(<<NUL>>, point + 1, 0, TRUE)
    ELSE Iter(<<c>>, point + 1, 0, FALSE)

(* Lines 179-185: any other byte outside quotes.                           *)
LexPlain(c) ==
    IF isspace(c) THEN Iter(<<NUL>>, point, 0, TRUE)
    ELSE Iter(<<c>>, point + 1, 0, FALSE)

(* A quote outside quotes that ends the token, as whitespace does.         *)
LexUnquoted_QuoteEndsToken(c) ==
    IF c \in {DQ, SQ} THEN Iter(<<NUL>>, point, 0, TRUE)
    ELSE IF c = BS THEN LexBackslash(point + 1)
    ELSE LexPlain(c)

(* Lines 163-187: outside quotes.                                          *)
LexUnquoted(c) ==
    IF c \in {DQ, SQ} THEN Iter(<<>>, point + 1, c, FALSE)
    ELSE IF c = BS THEN LexBackslash(point + 1)
    ELSE LexPlain(c)

(* Lines 113-190: the switch on strlit.  The default case is the           *)
(* assert(0 && "UNREACHABLE") of line 189.                                 *)
LexSwitch ==
    CASE strlit = SQ -> LexSingle(mem[point])
      [] strlit = DQ -> LexDouble(mem[point])
      [] strlit = 0  -> LexUnquoted(mem[point])
      [] OTHER       -> Iter(<<>>, point, strlit, FALSE)

AssertFails == pc = "lex" /\ point < source_end /\ strlit \notin {SQ, DQ, 0}

(* The addresses the next step of shlex_next dereferences: *s->point at    *)
(* line 104, at line 113, and after the point++ of lines 134 and 173.      *)
SkipReads == IF point < source_end THEN {point} ELSE {}

LexReads ==
    IF point >= source_end THEN {}
    ELSE IF strlit \in {DQ, 0} /\ mem[point] = BS /\ point + 1 < source_end
    THEN {point, point + 1}
    ELSE {point}

Reads ==
    CASE pc = "skip" -> SkipReads
      [] pc = "lex"  -> LexReads
      [] OTHER       -> {}

(* A token that is appended to what the storage holds.                     *)
TokenBegin_Keep(b) == b

(* Line 110: the storage is reset for the token.                           *)
TokenBegin(b) == Storage(b.string, 0, b.string_capacity)

(* The call itself.                                                        *)
shlex_next_call ==
    /\ pc = "idle"
    /\ pc' = "skip"
    /\ callPoint' = point
    /\ op' = "next"
    /\ UNCHANGED <<splitVars, string, string_count, string_capacity, strlit,
                   ret, tokStart, emitted, toks, joinVars, fed, rt, heap>>

(* A shlex_next that zeroes string_count before it tests for the end of    *)
(* the range.                                                              *)
shlex_next_skip_ResetsFirst ==
    /\ pc = "skip"
    /\ UNCHANGED <<fed, rt>>
    /\ IF SkipCond
       THEN /\ point' = point + 1
            /\ UNCHANGED <<mem, source, source_end, string, string_count,
                           string_capacity, pc, strlit, op, ret, callPoint,
                           tokStart, emitted, toks, joinVars, heap>>
       ELSE IF AtEnd
       THEN /\ pc' = "idle"
            /\ ret' = Returned(TRUE, <<>>)
            /\ SetBuf(TokenBegin(Buf))
            /\ UNCHANGED <<splitVars, strlit, op, callPoint, tokStart,
                           emitted, toks, joinVars>>
       ELSE /\ pc' = "lex"
            /\ SetBuf(TokenBegin(Buf))
            /\ strlit' = 0
            /\ tokStart' = point
            /\ emitted' = <<>>
            /\ clean' = FALSE
            /\ UNCHANGED <<splitVars, op, ret, callPoint, toks, args, joined>>

(* Lines 104-111: one iteration of the whitespace loop, or its exit: the   *)
(* return of NULL, or string_count = 0 and strlit = 0.                     *)
shlex_next_skip ==
    /\ pc = "skip"
    /\ UNCHANGED <<fed, rt>>
    /\ IF SkipCond
       THEN /\ point' = point + 1
            /\ UNCHANGED <<mem, source, source_end, string, string_count,
                           string_capacity, pc, strlit, op, ret, callPoint,
                           tokStart, emitted, toks, joinVars, heap>>
       ELSE IF AtEnd
       THEN /\ pc' = "idle"
            /\ ret' = Returned(TRUE, <<>>)
            /\ UNCHANGED <<splitVars, string, string_count, string_capacity,
                           strlit, op, callPoint, tokStart, emitted, toks,
                           joinVars, heap>>
       ELSE /\ pc' = "lex"
            /\ SetBuf(TokenBegin(Buf))
            /\ strlit' = 0
            /\ tokStart' = point
            /\ emitted' = <<>>
            /\ clean' = FALSE
            /\ UNCHANGED <<splitVars, op, ret, callPoint, toks, args, joined>>

(* A return at the end of the range that appends no terminator.            *)
LexStep_NoFinalTerminator ==
    IF point < source_end THEN LexSwitch
    ELSE Iter(<<>>, point, strlit, TRUE)

(* Lines 112-194: one iteration of the lexing loop, or, at the end of the  *)
(* range, the final terminator and return of lines 193-194.                *)
LexStep ==
    IF point < source_end THEN LexSwitch
    ELSE Iter(<<NUL>>, point, strlit, TRUE)

shlex_next_lex ==
    /\ pc = "lex"
    /\ ~AssertFails
    /\ LET it == LexStep
           b  == AppendAll(Buf, it.out)
       IN  /\ SetBuf(b)
           /\ point' = it.point
           /\ strlit' = it.strlit
           /\ emitted' = emitted \o it.out
           /\ IF it.done
              THEN /\ pc' = "idle"
                   /\ ret' = Returned(FALSE, b.string)
                   /\ toks' = Append(toks, SubSeq(b.string, 1, b.string_count - 1))
              ELSE UNCHANGED <<pc, ret, toks>>
    /\ UNCHANGED <<mem, source, source_end, op, callPoint, tokStart, joinVars,
                   fed, rt>>

----------------------------------------------------------------------------
(* shlex_reset.                                                           *)

(* A shlex_reset that leaves the cursor where it was.                      *)
shlex_reset_KeepsCursor ==
    /\ pc = "idle"
    /\ string_count' = 0
    /\ op' = "reset"
    /\ args' = <<>>
    /\ clean' = TRUE
    /\ rt' = NoRoundTrip
    /\ ret' = Void
    /\ LeaveNext
    /\ joined' = NoJoined
    /\ UNCHANGED <<splitVars, string, string_capacity, pc, fed, heap>>

(* shlex_reset, lines 197-204.  No pointer into the caller's text is left, *)
(* so the text is no longer part of the state.                             *)
shlex_reset ==
    /\ pc = "idle"
    /\ mem' = <<>>
    /\ source' = NULL
    /\ source_end' = NULL
    /\ point' = NULL
    /\ string_count' = 0
    /\ op' = "reset"
    /\ args' = <<>>
    /\ clean' = TRUE
    /\ rt' = NoRoundTrip
    /\ ret' = Void
    /\ LeaveNext
    /\ joined' = NoJoined
    /\ UNCHANGED <<string, string_capacity, pc, fed, heap>>

----------------------------------------------------------------------------
(* shlex_append_quoted_sized, lines 211-241.                               *)

(* A separator before every string, the first one too.                     *)
AppendSeparator_Always(b) == shlex__string_append(b, SP)

(* Line 213: the separator.                                                *)
AppendSeparator(b) ==
    IF b.string_count > 0 THEN shlex__string_append(b, SP) ELSE b

(* A single quote copied as it is into the single-quoted string.           *)
QuoteByte_Plain(c) == <<c>>

(* Lines 230-238: what one byte of an unsafe string is appended as.        *)
QuoteByte(c) == IF c = SQ THEN <<SQ, DQ, SQ, DQ, SQ>> ELSE <<c>>

(* Lines 229-239: the loop over the bytes of an unsafe string.             *)
RECURSIVE QuoteBytes(_)
QuoteBytes(str) ==
    IF str = <<>> THEN <<>>
    ELSE QuoteByte(Head(str)) \o QuoteBytes(Tail(str))

(* Lines 215-240: the bytes appended for str, after the separator.         *)
Encode(str) ==
    IF Len(str) = 0 THEN <<SQ, SQ>>
    ELSE IF ~shlex__contains_unsafe(str) THEN str
    ELSE <<SQ>> \o QuoteBytes(str) \o <<SQ>>

AppendQuoted(b, str) == AppendAll(AppendSeparator(b), Encode(str))

shlex_append_quoted_sized(str) ==
    /\ pc = "idle"
    /\ SetBuf(AppendQuoted(Buf, str))
    /\ op' = "append"
    /\ args' = Append(args, str)
    /\ fed' = fed + Len(str) + 1
    /\ rt' = NoRoundTrip
    /\ ret' = Void
    /\ LeaveNext
    /\ joined' = NoJoined
    /\ UNCHANGED <<splitVars, pc, clean>>

(* shlex_join, lines 243-248.  The caller reads the result as a C string   *)
(* and keeps a strdup of it (line 357).                                    *)
(* Line 246: the storage is reset for the next join session.               *)
JoinReset(b) == Storage(b.string, 0, b.string_capacity)

shlex_join ==
    /\ pc = "idle"
    /\ LET b == shlex__string_append(Buf, NUL)
       IN  /\ SetBuf(JoinReset(b))
           /\ ret' = Returned(FALSE, b.string)
           /\ joined' = [has |-> TRUE, str |-> CStr(b.string),
                         args |-> args, clean |-> clean]
    /\ op' = "join"
    /\ args' = <<>>
    /\ clean' = TRUE
    /\ rt' = NoRoundTrip
    /\ LeaveNext
    /\ UNCHANGED <<splitVars, pc, fed>>

----------------------------------------------------------------------------
(* The callers.                                                            *)

Seqs(A, n) == UNION {[1..k -> A] : k \in 0..n}

(* Bytes of the texts that are split: a word byte, both quotes, and the    *)
(* five bytes of lines 145-149, of which the newline is whitespace.        *)
SplitAlphabet == {CH_a, NL, SQ, DQ, BS, DOLLAR, BQ}

Sources == Seqs(SplitAlphabet, MaxSrcLen)

(* Bytes of the strings that are joined.                                   *)
JoinAlphabet == {CH_a, SP, SQ, NUL}

(* The strings that still fit when n has been fed.                         *)
Strings(n) == IF n < MaxFed THEN Seqs(JoinAlphabet, MaxFed - n - 1) ELSE {}

(* Lines 17-22: a zeroed instance splits one text and is freed.            *)
Fresh == pc = "idle" /\ op \in {"none", "free"}

Split_init ==
    /\ Fresh
    /\ \E src \in Sources :
           /\ shlex_init(src)
           /\ UNCHANGED <<fed, rt>>

Next ==
    \/ Split_init
    \/ shlex_next_call
    \/ shlex_next_skip
    \/ shlex_next_lex
    \/ shlex_free

Spec == Init /\ [][Next]_vars

(* Lines 305-366: one instance is reused for texts to split and strings to *)
(* join, in any order; MaxFed bounds what is fed to it in all.             *)
Reuse_init ==
    /\ pc = "idle"
    /\ \E src \in Strings(fed) :
           /\ shlex_init(src)
           /\ fed' = fed + Len(src) + 1
           /\ rt' = NoRoundTrip

Reuse_append ==
    /\ pc = "idle"
    /\ \E str \in Strings(fed) :
           shlex_append_quoted_sized(str)

(* Lines 357-359: the text split is the caller's copy of the last join.    *)
splitting_joined ==
    /\ joined.has
    /\ shlex_init(joined.str)
    /\ rt' = [on |-> joined.clean, S |-> joined.args]
    /\ UNCHANGED fed

NextReuse ==
    \/ Reuse_init
    \/ Reuse_append
    \/ shlex_join
    \/ splitting_joined
    \/ shlex_reset
    \/ shlex_next_call
    \/ shlex_next_skip
    \/ shlex_next_lex
    \/ shlex_free

SpecReuse == Init /\ [][NextReuse]_vars

----------------------------------------------------------------------------
(* Long inputs: one instance is fed a string and a text of more than       *)
(* INIT_CAP bytes, so that the storage grows more than once.               *)
Run(n) == [i \in 1..n |-> CH_a]

GrowString == Run(GrowLen)

GrowText == Run(GrowLen) \o <<NL, CH_a>>

Grow_init ==
    /\ pc = "idle"
    /\ fed + Len(GrowText) + 1 <= MaxGrowFed
    /\ shlex_init(GrowText)
    /\ fed' = fed + Len(GrowText) + 1
    /\ rt' = NoRoundTrip

Grow_append ==
    /\ pc = "idle"
    /\ fed + Len(GrowString) + 1 <= MaxGrowFed
    /\ shlex_append_quoted_sized(GrowString)

NextGrow ==
    \/ Grow_init
    \/ Grow_append
    \/ shlex_join
    \/ shlex_reset
    \/ shlex_next_call
    \/ shlex_next_skip
    \/ shlex_next_lex
    \/ shlex_free

SpecGrow == Init /\ [][NextGrow]_vars

----------------------------------------------------------------------------
(* realloc returning NULL.  Lines 253-260 check nothing: the capacity has  *)
(* been raised at line 254, line 256 overwrites s->string with NULL, and   *)
(* line 260 stores through it.  pc = "fault" is the instance at that       *)
(* store; what the process does from there is undefined and is not         *)
(* followed.                                                               *)

(* The bytes a call hands to shlex__string_append one by one, up to the    *)
(* first of them that finds string_count >= string_capacity at line 253.   *)
GrowthAt(b, xs) ==
    LET room == b.string_capacity - b.string_count
    IN  IF room >= Len(xs) THEN [grows |-> FALSE, b |-> b]
        ELSE [grows |-> TRUE, b |-> AppendAll(b, SubSeq(xs, 1, room))]

(* Lines 254-260 for that byte, realloc failing: the block held before is  *)
(* not freed and nothing points to it any more.                            *)
realloc_NULL(xs) ==
    LET g == GrowthAt(Buf, xs)
    IN  /\ g.grows
        /\ string_capacity' = GrowCapacity(g.b.string_capacity)
        /\ string' = <<>>
        /\ string_count' = g.b.string_count
        /\ heap' = [held |-> 0, leaked |-> heap.leaked + heap.held]
        /\ pc' = "fault"
        /\ UNCHANGED <<splitVars, strlit, ret, callPoint, tokStart, emitted,
                       toks, joinVars, fed, rt>>

(* Lines 213-240: the bytes shlex_append_quoted_sized appends.             *)
AppendedBytes(b, str) ==
    (IF b.string_count > 0 THEN <<SP>> ELSE <<>>) \o Encode(str)

shlex_append_quoted_sized_NULL(str) ==
    /\ pc = "idle"
    /\ op' = "append"
    /\ realloc_NULL(AppendedBytes(Buf, str))

shlex_join_NULL ==
    /\ pc = "idle"
    /\ op' = "join"
    /\ realloc_NULL(<<NUL>>)

shlex_next_lex_NULL ==
    /\ pc = "lex"
    /\ ~AssertFails
    /\ op' = "next"
    /\ realloc_NULL(LexStep.out)

Alloc_append_NULL ==
    /\ fed + Len(GrowString) + 1 <= MaxGrowFed
    /\ shlex_append_quoted_sized_NULL(GrowString)

NextAlloc ==
    \/ NextGrow
    \/ Alloc_append_NULL
    \/ shlex_join_NULL
    \/ shlex_next_lex_NULL

SpecAlloc == Init /\ [][NextAlloc]_vars

----------------------------------------------------------------------------
(* What the properties speak of.                                           *)

Range(seq) == {seq[i] : i \in DOMAIN seq}

Without(seq, S) == SelectSeq(seq, LAMBDA c : c \notin S)

Count(seq, c) == Cardinality({i \in DOMAIN seq : seq[i] = c})

IsPrefix(a, b) == Len(a) <= Len(b) /\ SubSeq(b, 1, Len(a)) = a

NulFree(S) == \A i \in DOMAIN S : NUL \notin Range(S[i])

(* shlex_next has returned a token, or end-of-input.                       *)
TokenReturned == op = "next" /\ pc = "idle" /\ ~ret.null

EndOfInput == op = "next" /\ pc = "idle" /\ ret.null

(* The token just returned, by its size, and the text it was made from.    *)
LastToken == toks[Len(toks)]

Slice == SubSeq(mem, tokStart, point - 1)

(* The number of backslashes of the token's text right before address i.   *)
RECURSIVE BsRun(_)
BsRun(i) == IF i > tokStart /\ mem[i - 1] = BS THEN 1 + BsRun(i - 1) ELSE 0

(* The quotes of sl are of one kind, or all the quotes of one kind come    *)
(* first and pair up before the first quote of the other kind.             *)
QuotesInSequence(sl) ==
    \/ /\ Count(sl, SQ) % 2 = 0
       /\ \A i, j \in DOMAIN sl : sl[i] = SQ /\ sl[j] = DQ => i < j
    \/ /\ Count(sl, DQ) % 2 = 0
       /\ \A i, j \in DOMAIN sl : sl[i] = DQ /\ sl[j] = SQ => i < j

(* s1 SP s2 SP ... SP sn for the encoded strings.                          *)
RECURSIVE JoinedBytes(_)
JoinedBytes(S) ==
    IF S = <<>> THEN <<>>
    ELSE IF Len(S) = 1 THEN Encode(S[1])
    ELSE Encode(Head(S)) \o <<SP>> \o JoinedBytes(Tail(S))

----------------------------------------------------------------------------
(* C1, as stated: for every sequence S of byte strings appended in a fresh *)
(* join session, splitting the C string shlex_join returned gives the      *)
(* elements of S in order and then end-of-input.                           *)
C1_RoundTripAnyBytes ==
    rt.on => /\ IsPrefix(toks, rt.S)
             /\ EndOfInput => toks = rt.S

(* C1, amended: the same for every sequence S of strings without a NUL     *)
(* byte.                                                                   *)
C1_RoundTrip ==
    (rt.on /\ NulFree(rt.S)) => /\ IsPrefix(toks, rt.S)
                                /\ EndOfInput => toks = rt.S

C1_Witness ==
    /\ rt.on
    /\ EndOfInput
    /\ rt.S = << <<SP, SQ>>, <<>> >>
    /\ toks = rt.S

(* C2: a token ends only at the end of the range or at a whitespace byte   *)
(* met outside quotes and not escaped by a backslash; quote delimiters do  *)
(* not end it: where the quoted segments of the token's text follow one    *)
(* another and no backslash occurs, the token is that text with the quote  *)
(* delimiters removed.                                                     *)
C2_TokenBoundaries ==
    TokenReturned =>
        /\ \/ point = source_end
           \/ /\ point < source_end
              /\ isspace(mem[point])
              /\ strlit = 0
              /\ BsRun(point) % 2 = 0
        /\ (BS \notin Range(Slice) /\ QuotesInSequence(Slice))
              => LastToken = Without(Slice, {SQ, DQ})

C2_Witness ==
    /\ TokenReturned
    /\ mem = <<CH_a, DQ, NL, DQ, NL>>
    /\ point = 5
    /\ LastToken = <<CH_a, NL>>

(* C3: shlex_next returns NULL exactly when every byte from the point of   *)
(* the call to the end of the range is whitespace.                         *)
C3_EndOfInput ==
    (op = "next" /\ pc = "idle") =>
        (ret.null <=> \A i \in callPoint..(source_end - 1) : isspace(mem[i]))

C3_Witness ==
    /\ EndOfInput
    /\ callPoint < source_end
    /\ Len(toks) = 1

(* C4: after shlex_next returns a token the first string_count bytes of    *)
(* the storage are the bytes of that token and one NUL terminator, and     *)
(* nothing older, whatever was split or joined before.                     *)
C4_TokenReplacesBuffer ==
    TokenReturned =>
        /\ string_count = Len(emitted)
        /\ string_count <= Len(string)
        /\ SubSeq(string, 1, string_count) = emitted
        /\ emitted = LastToken \o <<NUL>>

C4_Witness ==
    /\ TokenReturned
    /\ Len(string) > string_count
    /\ LastToken # <<>>

(* C5, the part on whitespace: the bytes shlex_next skips before a token   *)
(* are whitespace, the token's text starts at a byte that is not, and a    *)
(* token whose text has no quote and no backslash is that text and holds   *)
(* no whitespace.                                                          *)
C5_SeparatorsSkipped ==
    TokenReturned =>
        /\ \A i \in callPoint..(tokStart - 1) : isspace(mem[i])
        /\ tokStart < source_end
        /\ ~isspace(mem[tokStart])
        /\ Range(Slice) \cap {SQ, DQ, BS} = {}
              => /\ LastToken = Slice
                 /\ \A c \in Range(LastToken) : ~isspace(c)

(* C5, as stated: besides, a zero-length token is returned only for a text *)
(* with quotes in it.                                                      *)
C5_EmptyOnlyQuoted ==
    /\ C5_SeparatorsSkipped
    /\ (TokenReturned /\ LastToken = <<>>)
          => \E i \in DOMAIN Slice : Slice[i] \in {SQ, DQ}

(* C5, amended: besides, a zero-length token is returned only for a text   *)
(* made of quote delimiters and, possibly, of a backslash that is the last *)
(* byte of the range.                                                      *)
C5_EmptyTokens ==
    /\ C5_SeparatorsSkipped
    /\ (TokenReturned /\ LastToken = <<>>)
          => /\ point > tokStart
             /\ \A i \in tokStart..(point - 1) :
                   \/ mem[i] \in {SQ, DQ}
                   \/ mem[i] = BS /\ i = source_end - 1

C5_Witness ==
    /\ TokenReturned
    /\ LastToken = <<>>
    /\ callPoint < tokStart
    /\ mem[tokStart] = BS

(* C6: the assertion of line 189 is never reached; a token returned with a *)
(* quote still open ends at the end of the range; where the token's text   *)
(* opens at k a quote that is never closed, the token is the text before k *)
(* followed by the text after k; and a call made at the end of the range   *)
(* returns end-of-input.                                                   *)
OpenQuoteAt(k) ==
    /\ mem[k] \in {SQ, DQ}
    /\ \A i \in tokStart..(k - 1) : mem[i] \notin {SQ, DQ, BS} /\ ~isspace(mem[i])
    /\ \A i \in (k + 1)..(source_end - 1) :
          mem[i] # mem[k] /\ (mem[k] = DQ => mem[i] # BS)

C6_UnterminatedQuote ==
    /\ ~AssertFails
    /\ (TokenReturned /\ strlit # 0) => point = source_end
    /\ TokenReturned =>
          \A k \in tokStart..(source_end - 1) :
              OpenQuoteAt(k) =>
                  /\ point = source_end
                  /\ LastToken = SubSeq(mem, tokStart, k - 1)
                                    \o SubSeq(mem, k + 1, source_end - 1)
    /\ (op = "next" /\ pc = "idle" /\ callPoint = source_end) => ret.null

C6_Witness ==
    /\ TokenReturned
    /\ mem = <<DQ, CH_a, CH_a, CH_a>>
    /\ strlit = DQ
    /\ toks = << <<CH_a, CH_a, CH_a>> >>

(* C7: inside double quotes a backslash before one of $ ` \ newline "      *)
(* emits that byte alone, a backslash before any other byte emits the      *)
(* backslash and the byte, the closing quote emits nothing, and any other  *)
(* byte is emitted as it is.                                               *)
C7_DoubleQuoteEscapes ==
    [][ (/\ pc = "lex"
         /\ strlit = DQ
         /\ point < source_end
         /\ ~(mem[point] = BS /\ point + 1 >= source_end))
        => LET c == mem[point]
               d == mem[point + 1]
           IN  IF c = DQ
               THEN emitted' = emitted /\ point' = point + 1
               ELSE IF c # BS
               THEN emitted' = emitted \o <<c>> /\ point' = point + 1
               ELSE IF d \in {DOLLAR, BQ, BS, NL, DQ}
               THEN emitted' = emitted \o <<d>> /\ point' = point + 2
               ELSE emitted' = emitted \o <<BS, d>> /\ point' = point + 2
      ]_vars

C7_Witness ==
    /\ TokenReturned
    /\ mem = <<DQ, BS, DOLLAR, BS, CH_a>>
    /\ LastToken = <<DOLLAR, BS, CH_a>>

(* C8: outside quotes a backslash followed by a byte of the range emits    *)
(* that byte, whatever it is, and consumes both; a backslash that is the   *)
(* last byte of the range is consumed and emits nothing.                   *)
C8_UnquotedBackslash ==
    [][ (/\ pc = "lex"
         /\ strlit = 0
         /\ point < source_end
         /\ mem[point] = BS)
        => /\ pc' = "lex"
           /\ strlit' = 0
           /\ IF point + 1 < source_end
              THEN emitted' = emitted \o <<mem[point + 1]>> /\ point' = point + 2
              ELSE emitted' = emitted /\ point' = source_end
      ]_vars

C8_Witness ==
    /\ TokenReturned
    /\ mem = <<CH_a, BS, NL, CH_a>>
    /\ toks = << <<CH_a, NL, CH_a>> >>

(* C9: in a join session begun with an empty storage, shlex_join leaves    *)
(* in the storage the encoded strings of the session, one space between    *)
(* two of them, and a NUL terminator, returns them, sets string_count to 0 *)
(* and does not lower string_capacity.                                     *)
C9_JoinResult ==
    [][ (op' = "join" /\ clean)
        => LET J == JoinedBytes(args)
           IN  /\ Len(string') > Len(J)
               /\ SubSeq(string', 1, Len(J) + 1) = J \o <<NUL>>
               /\ string_count' = 0
               /\ string_capacity' >= string_capacity
               /\ string_capacity' > Len(J)
               /\ ~ret'.null
               /\ NulFree(args) => ret'.str = J
      ]_vars

C9_Witness ==
    /\ op = "join"
    /\ joined.clean
    /\ Len(joined.args) >= 1
    /\ ret.str = JoinedBytes(joined.args)
    /\ Len(string) > Len(ret.str) + 1

(* C10, as stated: a string is appended in quotes exactly when it is empty *)
(* or has a byte that is neither alphanumeric nor one of _@%+=:,./- , and  *)
(* is appended as it is otherwise; for every byte value, NUL included.     *)
NeedsQuoting(str) ==
    \/ str = <<>>
    \/ \E i \in DOMAIN str : ~isalnum(str[i]) /\ str[i] \notin Range(SafePunct)

C10_UnsafeTest ==
    (op = "append" /\ clean /\ Len(args) = 1) =>
        LET out == SubSeq(string, 1, string_count)
        IN  IF NeedsQuoting(args[1])
            THEN Len(out) >= 2 /\ Head(out) = SQ /\ out[Len(out)] = SQ
            ELSE out = args[1]

(* The quoted form of str: an opening quote, the bytes of str with each    *)
(* single quote replaced by the five bytes '"'"', and a closing quote.     *)
QuotedForm(str) ==
    LET pos(i) == 1 + i + 4 * Count(SubSeq(str, 1, i - 1), SQ)
        n == Len(str) + 2 + 4 * Count(str, SQ)
    IN  [j \in 1..n |->
            IF j = 1 \/ j = n THEN SQ
            ELSE IF \E i \in DOMAIN str : str[i] # SQ /\ pos(i) = j
            THEN str[CHOOSE i \in DOMAIN str : str[i] # SQ /\ pos(i) = j]
            ELSE LET i == CHOOSE i \in DOMAIN str :
                              str[i] = SQ /\ pos(i) <= j /\ j <= pos(i) + 4
                 IN  <<SQ, DQ, SQ, DQ, SQ>>[j - pos(i) + 1]]

(* C11, as stated: the empty string is appended as the two bytes '', and a *)
(* string needing quoting, of n bytes of which k are single quotes, is     *)
(* appended as its quoted form, which is n + 2 + 4k bytes.                 *)
C11_QuotedForm ==
    (op = "append" /\ clean /\ Len(args) = 1) =>
        LET str == args[1]
            out == SubSeq(string, 1, string_count)
        IN  /\ str = <<>> => out = <<SQ, SQ>>
            /\ (str # <<>> /\ NeedsQuoting(str)) =>
                   /\ out = QuotedForm(str)
                   /\ Len(out) = Len(str) + 2 + 4 * Count(str, SQ)

(* C12, as stated: shlex_init implies shlex_reset, so right after          *)
(* shlex_init string_count is 0, whatever was appended to the instance or  *)
(* left in it by shlex_next before.                                        *)
C12_InitImpliesReset == op = "init" => string_count = 0

(* C13: shlex_reset sets source, source_end and point to NULL and          *)
(* string_count to 0 and leaves string and string_capacity as they were;   *)
(* shlex_next on an instance whose cursor fields are NULL, as after        *)
(* shlex_reset or zero-initialisation, returns end-of-input.               *)
C13_Reset ==
    /\ [][ op' = "reset"
           => /\ source' = NULL /\ source_end' = NULL /\ point' = NULL
              /\ string_count' = 0
              /\ string' = string
              /\ string_capacity' = string_capacity
         ]_vars
    /\ []((op = "next" /\ pc = "idle" /\ source = NULL) => ret.null)

(* shlex_next has returned end-of-input on an instance that was reset      *)
(* while it held storage.                                                  *)
C13_Witness ==
    /\ EndOfInput
    /\ source = NULL /\ source_end = NULL /\ point = NULL
    /\ string_count = 0
    /\ string_capacity = INIT_CAP
    /\ Len(string) > 0

(* C14, as stated: a realloc that returns NULL aborts the operation: no    *)
(* append stores through a null buffer, loses the block it held before, or *)
(* goes on with string_capacity above the size of the storage held.        *)
C14_AllocFailureFatal ==
    /\ pc # "fault"
    /\ heap.leaked = 0
    /\ string_capacity <= heap.held

(* C15: a shlex_next call that returns end-of-input leaves string,         *)
(* string_count and string_capacity as they were before the call; only the *)
(* cursor may move, forward over whitespace.  Such a call is the call      *)
(* step, iterations of the whitespace loop, and the return of NULL.        *)
C15_EndOfInputKeepsBuffer ==
    [][ (op' = "next" /\ pc \in {"idle", "skip"} /\ pc' \in {"skip", "idle"})
        => /\ string' = string
           /\ string_count' = string_count
           /\ string_capacity' = string_capacity
           /\ point' >= point
           /\ (pc' = "idle" => ret'.null)
      ]_vars

(* End-of-input was returned after trailing whitespace was skipped, with   *)
(* appended content in the storage.                                        *)
C15_Witness ==
    /\ EndOfInput
    /\ point > callPoint
    /\ string_count > 0
    /\ args # <<>>
    /\ SubSeq(string, 1, string_count) = JoinedBytes(args)

(* INIT_CAP times a power of two.                                          *)
RECURSIVE IsDoubled(_)
IsDoubled(c) ==
    \/ c = INIT_CAP
    \/ c > INIT_CAP /\ c % 2 = 0 /\ IsDoubled(c \div 2)

(* C16: in every state reached by calls of init, next, reset, append and   *)
(* join, string_count <= string_capacity and string_capacity is 0 or       *)
(* INIT_CAP times a power of two; a step that changes the capacity at      *)
(* least doubles it, from 0 to at least INIT_CAP, a single growth being    *)
(* exactly from 0 to INIT_CAP or a doubling; and only shlex_free lowers    *)
(* it.                                                                     *)
C16_BufferInvariant ==
    /\ [](/\ string_count <= string_capacity
          /\ string_capacity = 0 \/ IsDoubled(string_capacity))
    /\ [][ op' # "free"
           => /\ string_capacity' >= string_capacity
              /\ string_capacity' # string_capacity
                 => /\ string_capacity' >= INIT_CAP
                    /\ string_capacity' >= 2 * string_capacity
                    /\ pc = "lex" => string_capacity' = GrowCapacity(string_capacity)
         ]_vars

(* The storage has grown three times, the last time in an append that      *)
(* found it full of earlier strings.                                       *)
C16_Witness ==
    /\ op = "append"
    /\ Len(args) = 2
    /\ string_capacity = 4 * INIT_CAP
    /\ string_count > 2 * INIT_CAP

(* C17: while a text is split, at every step inside and between shlex_next *)
(* calls, source <= point <= source_end; no step of shlex_next moves point *)
(* backward; and every byte shlex_next reads is inside the range, none at  *)
(* source_end, a trailing backslash included.                              *)
C17_CursorInvariant ==
    /\ [](/\ source <= point
          /\ point <= source_end
          /\ \A p \in Reads : source <= p /\ p < source_end /\ p \in DOMAIN mem)
    /\ [][ op' = "next" => point' >= point ]_vars

(* A token that ends in a backslash at the very end of the text, outside   *)
(* quotes, has been returned with the cursor at source_end.                *)
C17_Witness ==
    /\ TokenReturned
    /\ strlit = 0
    /\ Len(mem) = MaxSrcLen
    /\ mem[Len(mem)] = BS
    /\ mem[Len(mem) - 1] = CH_a
    /\ point = source_end
    /\ tokStart < point - 1

(* shlex_next is about to read a whitespace byte outside quotes.           *)
AtTerminatingWhitespace ==
    pc = "lex" /\ strlit = 0 /\ point < source_end /\ isspace(mem[point])

(* C18, as stated: when whitespace outside quotes ends a token, the        *)
(* whitespace byte is consumed: on return the cursor is just past it.      *)
C18_WhitespaceConsumed ==
    [][ AtTerminatingWhitespace
        => (pc' = "idle" /\ ~ret'.null /\ point' = point + 1) ]_vars

(* C18, amended: when whitespace outside quotes ends a token, the token is *)
(* returned with the cursor at the whitespace byte, which is not consumed; *)
(* a token returned before the end of the text always leaves the cursor at *)
(* a whitespace byte, and the next call's whitespace loop passes it.       *)
C18_WhitespaceLeft ==
    /\ [][ AtTerminatingWhitespace
           => (pc' = "idle" /\ ~ret'.null /\ point' = point) ]_vars
    /\ []((TokenReturned /\ point < source_end) => isspace(mem[point]))
    /\ [][ (pc = "skip" /\ point < source_end /\ isspace(mem[point]))
           => (pc' = "skip" /\ point' = point + 1) ]_vars

(* A token ended by whitespace has been returned, with more text after the *)
(* whitespace.                                                             *)
C18_Witness ==
    /\ TokenReturned
    /\ LastToken = <<CH_a>>
    /\ point + 1 < source_end
    /\ isspace(mem[point])
    /\ mem[point - 1] = CH_a

(* shlex_next is about to read, inside double quotes, a backslash that is  *)
(* the last byte of the range.                                             *)
AtTrailingDqBackslash ==
    /\ pc = "lex" /\ strlit = DQ
    /\ point + 1 = source_end /\ mem[point] = BS

(* C19: a backslash that is the last byte of the range, inside double      *)
(* quotes, adds one literal backslash after the token's content so far and *)
(* then the terminator, and the token is returned at once with the cursor  *)
(* at source_end; the call that follows returns end-of-input.              *)
C19_TrailingDqBackslash ==
    /\ [][ AtTrailingDqBackslash
           => /\ pc' = "idle"
              /\ ~ret'.null
              /\ point' = source_end
              /\ emitted' = emitted \o <<BS, NUL>>
              /\ string_count' = string_count + 2
              /\ SubSeq(string', 1, string_count') =
                     SubSeq(string, 1, string_count) \o <<BS, NUL>>
              /\ toks' = Append(toks, SubSeq(string, 1, string_count) \o <<BS>>)
         ]_vars
    /\ [][ (pc = "skip" /\ callPoint = source_end /\ source # NULL)
           => (pc' = "idle" /\ ret'.null) ]_vars

(* The text "a\ has given the token a\ , and the call after it has         *)
(* returned end-of-input.                                                  *)
C19_Witness ==
    /\ EndOfInput
    /\ mem = <<DQ, CH_a, BS>>
    /\ toks = << <<CH_a, BS>> >>
    /\ callPoint = source_end

(* C20: a shlex_next call that returns a token leaves the cursor at least  *)
(* one byte further than it found it, so a text of L bytes gives at most L *)
(* tokens, one for each byte consumed at most, and the calls reach         *)
(* end-of-input; end-of-input is returned with the cursor at source_end,   *)
(* where it stays until shlex_init, and every call that starts there       *)
(* returns end-of-input again.                                             *)
C20_Progress ==
    /\ [](TokenReturned => point > callPoint)
    /\ [](Len(toks) <= point - source /\ Len(toks) <= Len(mem))
    /\ [](EndOfInput => point = source_end)
    /\ [][ (EndOfInput /\ op' = "next")
           => (pc' = "skip" /\ callPoint' = source_end /\ point' = point) ]_vars
    /\ [][ (pc = "skip" /\ callPoint = source_end)
           => (pc' = "idle" /\ ret'.null /\ point' = point) ]_vars

(* A text has given as many one-byte tokens as it can hold, and a call    *)
(* that started at source_end has returned end-of-input.                   *)
C20_Witness ==
    /\ EndOfInput
    /\ Len(toks) >= 2
    /\ 2 * Len(toks) + 1 >= Len(mem)
    /\ callPoint = source_end

====
